---- MODULE Spec2Model ----
(***************************************************************************)
(* Model of helpers/aggregate_parallel_files.py: aggregation of the tile   *)
(* files of one time step (agg_file) into one dataset covering the whole   *)
(* domain.  Arrays are functions from 0-based index tuples to integers;    *)
(* numpy slicing, clipping and broadcasting are modelled as numpy does     *)
(* them.                                                                   *)
(***************************************************************************)
EXTENDS Integers, Sequences, FiniteSets, TLC

\* ------------------------------------------------------------------ bounds
MaxN     == 2   \* largest domain size along x and along y
MaxNz    == 3   \* largest domain size along z
FirstIndex == 1 \* first global index of the domain on every axis (ids, jds, kds)
HaloFill == 10  \* a halo cell of tile f holds HaloFill + f

Min2(a, b) == IF a < b THEN a ELSE b
Max2(a, b) == IF a > b THEN a ELSE b

\* ------------------------------------------------------- the tile files
\* The variables a tile file may hold, with their dimension tuples
\* (d[v].dims).  'lon_u' / 'lat_v' are the staggered markers.
Dims(v) ==
    CASE v = "v2"   -> <<"lat_y", "lon_x">>
      [] v = "v2u"  -> <<"lat_y", "lon_u">>
      [] v = "v2v"  -> <<"lat_v", "lon_x">>
      [] v = "v3t"  -> <<"time", "lat_y", "lon_x">>
      [] v = "v3tu" -> <<"time", "lat_y", "lon_u">>
      [] v = "v3z"  -> <<"level", "lat_y", "lon_x">>
      [] v = "v3zv" -> <<"level", "lat_v", "lon_x">>
      [] v = "v4"   -> <<"time", "level", "lat_y", "lon_x">>
      [] v = "v4uv" -> <<"time", "level", "lat_v", "lon_u">>
      [] v = "v1"   -> <<"time">>
      [] v = "v5"   -> <<"time", "member", "level", "lat_y", "lon_x">>

\* The variable lists (d.variables, in order) of the tile groups explored.
VarLists ==
    { <<"v2", "v3t", "v3z", "v4">>, <<"v2u", "v3tu">>,
      <<"v2v", "v3zv", "v4uv">>, <<"v1">>, <<"v3t", "v1">>, <<"v5", "v2">> }

\* One axis of the domain, n cells from FirstIndex, cut after c cells
\* (c = 0: not cut): the inclusive <<start, end>> of each piece.
Pieces(n, c) ==
    IF c = 0 THEN << <<FirstIndex, FirstIndex + n - 1>> >>
    ELSE << <<FirstIndex, FirstIndex + c - 1>>,
            <<FirstIndex + c, FirstIndex + n - 1>> >>

\* The halo widths of the tile groups explored.
HaloWidths == {0, 1}

\* A decomposition: n = sizes, c = cuts, h = halo widths, each <<x, y, z>>.
\* The halo is as wide along y as along x; along z there is none or the same.
\* The domain is cut horizontally or vertically, not both.
Geometries ==
    { g \in [n : (1..MaxN) \X (1..MaxN) \X (1..MaxNz),
             c : (0..MaxN-1) \X (0..MaxN-1) \X (0..MaxNz-1),
             h : HaloWidths \X HaloWidths \X HaloWidths] :
        /\ \A a \in 1..3 : g.c[a] < g.n[a]
        /\ g.h[1] = g.h[2]
        /\ g.h[3] \in {0, g.h[1]}
        /\ g.c[3] = 0 \/ (g.c[1] = 0 /\ g.c[2] = 0) }

NPieces(g, a) == Len(Pieces(g.n[a], g.c[a]))
NTiles(g) == NPieces(g, 1) * NPieces(g, 2) * NPieces(g, 3)

Ext(is, ie, js, je, ks, ke) ==
    [i |-> [s |-> is, e |-> ie], j |-> [s |-> js, e |-> je],
     k |-> [s |-> ks, e |-> ke]]

\* The global attributes of tile file f (1..NTiles, x fastest): domain (d),
\* memory (m) and tile (t) extents.
TileAttrs(g, f) ==
    LET px == Pieces(g.n[1], g.c[1])[((f - 1) % NPieces(g, 1)) + 1]
        py == Pieces(g.n[2], g.c[2])
                  [(((f - 1) \div NPieces(g, 1)) % NPieces(g, 2)) + 1]
        pz == Pieces(g.n[3], g.c[3])
                  [((f - 1) \div (NPieces(g, 1) * NPieces(g, 2))) + 1]
    IN [d |-> Ext(FirstIndex, FirstIndex + g.n[1] - 1,
                  FirstIndex, FirstIndex + g.n[2] - 1,
                  FirstIndex, FirstIndex + g.n[3] - 1),
        m |-> Ext(px[1] - g.h[1], px[2] + g.h[1],
                  py[1] - g.h[2], py[2] + g.h[2],
                  pz[1] - g.h[3], pz[2] + g.h[3]),
        t |-> Ext(px[1], px[2], py[1], py[2], pz[1], pz[2])]

\* The sizes of the time dimension of the tile groups explored.
TimeSizes == {2}

\* The content of tile file f: what xr.open_dataset(file).load() returns.
TileFile(g, f, vl, nt) ==
    [file |-> f, attrs |-> TileAttrs(g, f), variables |-> vl, nt |-> nt]

\* d.dims[name]: the size of a dimension in a tile file.  The arrays of a
\* tile cover its memory extent, one more along a staggered axis.
DimSize(d, name) ==
    LET m == d.attrs.m
    IN CASE name = "time"   -> d.nt
         [] name = "member" -> 1
         [] name = "level"  -> m.k.e - m.k.s + 1
         [] name = "lat_y"  -> m.j.e - m.j.s + 1
         [] name = "lat_v"  -> m.j.e - m.j.s + 2
         [] name = "lon_x"  -> m.i.e - m.i.s + 1
         [] name = "lon_u"  -> m.i.e - m.i.s + 2

TileShape(d, v) == [a \in 1..Len(Dims(v)) |-> DimSize(d, Dims(v)[a])]

\* Position of dimension name in a dimension tuple, 0 if absent.
DimPos(dims, name) ==
    IF \E a \in 1..Len(dims) : dims[a] = name
    THEN CHOOSE a \in 1..Len(dims) : dims[a] = name
    ELSE 0

\* The cell at local index idx of a variable of tile d whose rank is r and
\* whose vertical axis is axis zp (0: none): the tile's number if the cell
\* lies in the tile extent (interior), HaloFill + number otherwise.
TileCell(d, r, zp, idx) ==
    IF /\ d.attrs.t.i.s <= d.attrs.m.i.s + idx[r]
       /\ d.attrs.m.i.s + idx[r] <= d.attrs.t.i.e
       /\ d.attrs.t.j.s <= d.attrs.m.j.s + idx[r - 1]
       /\ d.attrs.m.j.s + idx[r - 1] <= d.attrs.t.j.e
       /\ (zp = 0 \/ (/\ d.attrs.t.k.s <= d.attrs.m.k.s + idx[zp]
                      /\ d.attrs.m.k.s + idx[zp] <= d.attrs.t.k.e))
    THEN d.file
    ELSE HaloFill + d.file

\* d[v].values[idx]
TileValue(d, v, idx) ==
    TileCell(d, Len(Dims(v)), DimPos(Dims(v), "level"), idx)

\* --------------------------------------------------------------- arrays
\* All 0-based index tuples of an array of the given shape.
RECURSIVE IdxSet(_)
IdxSet(shape) ==
    IF Len(shape) = 0 THEN { << >> }
    ELSE { << h >> \o t : h \in 0..(shape[1] - 1), t \in IdxSet(Tail(shape)) }

\* np.zeros(shape)
Zeros(shape) == [idx \in IdxSet(shape) |-> 0]


\* Python's slice s:e (step 1) on an axis of size n: negative bounds count
\* from the end, both bounds are clipped to the axis.  all = TRUE is ':'.
Slice(s, e) == [all |-> FALSE, s |-> s, e |-> e]
FullSlice == [all |-> TRUE, s |-> 0, e |-> 0]
NormIndex(x, n) == IF x < 0 THEN Max2(x + n, 0) ELSE Min2(x, n)
SliceLo(sl, n) == IF sl.all THEN 0 ELSE NormIndex(sl.s, n)
SliceHi(sl, n) == IF sl.all THEN n ELSE NormIndex(sl.e, n)
SliceLen(sl, n) == Max2(0, SliceHi(sl, n) - SliceLo(sl, n))

\* numpy's  dst[dsl] = d[v].values[ssl]  (d[v].values[idx] is
\* TileValue(d, v, idx)): the selected shapes must be equal
\* or the source's size along an axis must be 1 (broadcast); otherwise
\* ValueError.  wrote = the cells of dst that were assigned.
SetItem(arr, dsl, d, v, ssl) ==
    LET r == Len(arr.shape)
        sshape == TileShape(d, v)
        \* per axis: destination low, high; source low; selected sizes D, S
        bounds == [a \in 1..r |->
                     [dlo |-> SliceLo(dsl[a], arr.shape[a]),
                      dhi |-> SliceHi(dsl[a], arr.shape[a]),
                      slo |-> SliceLo(ssl[a], sshape[a]),
                      D |-> SliceLen(dsl[a], arr.shape[a]),
                      S |-> SliceLen(ssl[a], sshape[a])]]
        Assign(b, zp) ==
            LET ok == \A a \in 1..r : b[a].S = b[a].D \/ b[a].S = 1
                region == { idx \in DOMAIN arr.values :
                              \A a \in 1..r : /\ b[a].dlo <= idx[a]
                                              /\ idx[a] < b[a].dhi }
                from(idx) == [a \in 1..r |->
                                b[a].slo + (IF b[a].S = b[a].D
                                            THEN idx[a] - b[a].dlo ELSE 0)]
            IN IF ~ok THEN [err |-> "ValueError", arr |-> arr, wrote |-> {}]
               ELSE [err |-> "",
                     arr |-> [arr EXCEPT !.values =
                                [idx \in DOMAIN arr.values |->
                                    IF idx \in region
                                    THEN TileCell(d, r, zp, from(idx))
                                    ELSE arr.values[idx]]],
                     wrote |-> region]
    IN CHOOSE res \in { Assign(b, zp) : b \in {bounds},
                                        zp \in {DimPos(Dims(v), "level")} } :
           TRUE

\* ------------------------------------------------------ pure functions
\* get_dims: the six extents of one section ("d", "m" or "t").
get_dims(dataset, section) ==
    LET x == dataset.attrs[section]
    IN << x.i.s, x.i.e, x.j.s, x.j.e, x.k.s, x.k.e >>

\* get_dim_offset with the two markers exchanged.
get_dim_offset_mut(dims) ==
    << IF \E a \in 1..Len(dims) : dims[a] = "lat_v" THEN 1 ELSE 0,
       IF \E a \in 1..Len(dims) : dims[a] = "lon_u" THEN 1 ELSE 0 >>

\* get_dim_offset: <<x_off, y_off>>
get_dim_offset(dims) ==
    << IF \E a \in 1..Len(dims) : dims[a] = "lon_u" THEN 1 ELSE 0,
       IF \E a \in 1..Len(dims) : dims[a] = "lat_v" THEN 1 ELSE 0 >>

\* The array allocated for one variable of set_up_dataset's loop: a fresh
\* np.zeros for rank 2, 3, 4; for any other rank no branch assigns 'data',
\* which keeps the value of the previous iteration (prev; bound = FALSE
\* when nothing was assigned yet).
AllocData(d, dims, nx, ny, prev) ==
    LET off == get_dim_offset(dims)
    IN IF Len(dims) = 2
       THEN [bound |-> TRUE, shape |-> << ny + off[2], nx + off[1] >>]
       ELSE IF Len(dims) = 3
       THEN [bound |-> TRUE,
             shape |-> << DimSize(d, dims[1]), ny + off[2], nx + off[1] >>]
       ELSE IF Len(dims) = 4
       THEN [bound |-> TRUE,
             shape |-> << DimSize(d, dims[1]), DimSize(d, dims[2]),
                          ny + off[2], nx + off[1] >>]
       ELSE prev

\* DataArrayError without the check of the number of axes.
DataArrayError_mut(data, dims) ==
    IF ~data.bound THEN "UnboundLocalError" ELSE ""

\* xr.DataArray(data, dims=dims): reading an unassigned 'data' raises
\* UnboundLocalError; data whose number of axes differs from len(dims) is
\* rejected with ValueError.
DataArrayError(data, dims) ==
    IF ~data.bound THEN "UnboundLocalError"
    ELSE IF Len(data.shape) # Len(dims) THEN "ValueError"
    ELSE ""

\* The loop of set_up_dataset over d.variables from position k on.
RECURSIVE SetUpLoop(_, _, _, _, _, _)
SetUpLoop(d, k, nx, ny, prev, data_vars) ==
    IF k > Len(d.variables) THEN [err |-> "", data_vars |-> data_vars]
    ELSE LET v == d.variables[k]
             dims == Dims(v)
             data == AllocData(d, dims, nx, ny, prev)
             e == DataArrayError(data, dims)
         IN IF e # "" THEN [err |-> e, data_vars |-> data_vars]
            ELSE SetUpLoop(d, k + 1, nx, ny, data,
                     data_vars @@ (v :> [dims |-> dims, shape |-> data.shape,
                                         values |-> Zeros(data.shape)]))

NoVars == [v \in {} |-> 0]

\* xr.Dataset(data_vars): a dimension name must have one size.
DatasetError(data_vars) ==
    IF \A v \in DOMAIN data_vars, w \in DOMAIN data_vars :
         \A a \in 1..Len(data_vars[v].dims), b \in 1..Len(data_vars[w].dims) :
            data_vars[v].dims[a] = data_vars[w].dims[b]
                => data_vars[v].shape[a] = data_vars[w].shape[b]
    THEN "" ELSE "ValueError"

\* set_up_dataset(d): the zero-filled dataset covering the whole domain.
set_up_dataset(d) ==
    LET dd == get_dims(d, "d")
        nx == dd[2] - dd[1] + 1
        ny == dd[4] - dd[3] + 1
        r == SetUpLoop(d, 1, nx, ny, [bound |-> FALSE, shape |-> <<>>], NoVars)
    IN IF r.err # "" THEN [err |-> r.err, data_set |-> NoVars]
       ELSE IF DatasetError(r.data_vars) # ""
       THEN [err |-> DatasetError(r.data_vars), data_set |-> NoVars]
       ELSE [err |-> "", data_set |-> r.data_vars]

\* TileSlices with the global x start taken relative to the memory extent.
TileSlices_mut(d, dd) ==
    LET m == get_dims(d, "m")
        t == get_dims(d, "t")
    IN [xts |-> t[1] - m[1], xte |-> t[2] - m[1] + 1,
        yts |-> t[3] - m[3], yte |-> t[4] - m[3] + 1,
        zts |-> t[5] - m[5], zte |-> t[6] - m[5] + 1,
        xs  |-> t[1] - m[1], xe |-> t[2] - dd[1] + 1,
        ys  |-> t[3] - dd[3], ye |-> t[4] - dd[3] + 1,
        zs  |-> t[5] - dd[5], ze |-> t[6] - dd[5] + 1]

\* The slice bounds agg_file computes for tile d: local (xts..zte) and
\* global (xs..ze).
TileSlices(d, dd) ==
    LET m == get_dims(d, "m")
        t == get_dims(d, "t")
    IN [xts |-> t[1] - m[1], xte |-> t[2] - m[1] + 1,
        yts |-> t[3] - m[3], yte |-> t[4] - m[3] + 1,
        zts |-> t[5] - m[5], zte |-> t[6] - m[5] + 1,
        xs  |-> t[1] - dd[1], xe |-> t[2] - dd[1] + 1,
        ys  |-> t[3] - dd[3], ye |-> t[4] - dd[3] + 1,
        zs  |-> t[5] - dd[5], ze |-> t[6] - dd[5] + 1]

\* GlobalSlices with the stagger widening applied to rank 2 as well.
GlobalSlices_mut(s, dims) ==
    LET off == get_dim_offset(dims)
        yx == << Slice(s.ys, s.ye + off[2]), Slice(s.xs, s.xe + off[1]) >>
    IN IF Len(dims) = 2 THEN yx
       ELSE IF Len(dims) = 3
       THEN (IF dims[1] = "time" THEN << FullSlice >> \o yx
             ELSE << Slice(s.zs, s.ze) >> \o yx)
       ELSE << FullSlice, Slice(s.zs, s.ze) >> \o yx

\* The destination slices of variable v for the slice bounds s.
GlobalSlices(s, dims) ==
    LET off == get_dim_offset(dims)
        yx == << Slice(s.ys, s.ye + off[2]), Slice(s.xs, s.xe + off[1]) >>
    IN IF Len(dims) = 2 THEN << Slice(s.ys, s.ye), Slice(s.xs, s.xe) >>
       ELSE IF Len(dims) = 3
       THEN (IF dims[1] = "time" THEN << FullSlice >> \o yx
             ELSE << Slice(s.zs, s.ze) >> \o yx)
       ELSE << FullSlice, Slice(s.zs, s.ze) >> \o yx

\* The source slices of variable v for the slice bounds s.
LocalSlices(s, dims) ==
    LET off == get_dim_offset(dims)
        yx == << Slice(s.yts, s.yte + off[2]), Slice(s.xts, s.xte + off[1]) >>
    IN IF Len(dims) = 2 THEN << Slice(s.yts, s.yte), Slice(s.xts, s.xte) >>
       ELSE IF Len(dims) = 3
       THEN (IF dims[1] = "time" THEN << FullSlice >> \o yx
             ELSE << Slice(s.zts, s.zte) >> \o yx)
       ELSE << FullSlice, Slice(s.zts, s.zte) >> \o yx

\* The loop over d.variables of one tile, from position k on.  A variable
\* of rank other than 2, 3, 4 is skipped.  wrote[v] = cells assigned.
RECURSIVE CopyVars(_, _, _, _, _)
CopyVars(ds, d, s, k, wrote) ==
    IF k > Len(d.variables) THEN [err |-> "", data_set |-> ds, wrote |-> wrote]
    ELSE LET v == d.variables[k]
             dims == Dims(v)
         IN IF Len(dims) \notin {2, 3, 4}
            THEN CopyVars(ds, d, s, k + 1, wrote)
            ELSE LET r == SetItem(ds[v], GlobalSlices(s, dims), d, v,
                                  LocalSlices(s, dims))
                 IN IF r.err # ""
                    THEN [err |-> r.err, data_set |-> ds, wrote |-> wrote]
                    ELSE CopyVars([ds EXCEPT ![v] = r.arr], d, s, k + 1,
                                  wrote @@ (v :> r.wrote))

\* One iteration of agg_file's loop over all_data: copy tile d into ds.
CopyTile(ds, d, dd) == CopyVars(ds, d, TileSlices(d, dd), 1, NoVars)

\* The whole loop over a list of tiles, in the order of the list.
RECURSIVE CopyAll(_, _, _, _)
CopyAll(ds, tiles, dd, k) ==
    IF k > Len(tiles) THEN [err |-> "", data_set |-> ds]
    ELSE LET r == CopyTile(ds, tiles[k], dd)
         IN IF r.err # "" THEN [err |-> r.err, data_set |-> r.data_set]
            ELSE CopyAll(r.data_set, tiles, dd, k + 1)


\* ------------------------------------------------------- state machine
VARIABLES
    pc,               \* position in agg_file
    group,            \* the tile files the simulation wrote for this time step
    missing,          \* tile files of the group that are not on disk
    unreadable,       \* tile files on disk that cannot be opened
    this_date_files,  \* the sorted list of files found by glob
    results,          \* the pool's map_async result, per file
    all_data,         \* the loaded tile datasets
    data_set,         \* the dataset covering the whole domain
    i,                \* position of the loop over all_data
    sl,               \* slice bounds computed for the tile copied last
    copied,           \* tiles whose copy has finished
    writers,          \* per variable and cell, the tiles that assigned it
    output,           \* the datasets written with to_netcdf
    err               \* the exception that ended agg_file, "" if none

vars == << pc, group, missing, unreadable, this_date_files, results, all_data,
           data_set, i, sl, copied, writers, output, err >>

Files == 1..Len(group)

\* No fault, or the last tile file of the group is missing or unreadable;
\* first_file (tile 1, the one with _001_ in its name) is on disk.
Faults(n) ==
    { [missing |-> {}, unreadable |-> {}] }
      \cup { [missing |-> {f}, unreadable |-> {}] : f \in {n} \ {1} }
      \cup { [missing |-> {}, unreadable |-> {f}] : f \in {n} }

NoSlices == [xts |-> 0, xte |-> 0, yts |-> 0, yte |-> 0, zts |-> 0, zte |-> 0,
             xs |-> 0, xe |-> 0, ys |-> 0, ye |-> 0, zs |-> 0, ze |-> 0]

Init ==
    /\ \E g \in Geometries, vl \in VarLists, nt \in TimeSizes :
         /\ group = [f \in 1..NTiles(g) |-> TileFile(g, f, vl, nt)]
         /\ \E ft \in Faults(NTiles(g)) :
              /\ missing = ft.missing
              /\ unreadable = ft.unreadable
    /\ pc = "start"
    /\ this_date_files = << >>
    /\ results = << >>
    /\ all_data = << >>
    /\ data_set = NoVars
    /\ i = 0
    /\ sl = NoSlices
    /\ copied = {}
    /\ writers = NoVars
    /\ output = << >>
    /\ err = ""

\* The elements of a set of file numbers in ascending order (list.sort()).
RECURSIVE SortedSeq(_)
SortedSeq(S) ==
    IF S = {} THEN << >>
    ELSE LET lo == CHOOSE x \in S : \A y \in S : x <= y
         IN << lo >> \o SortedSeq(S \ {lo})

\* glob.glob(date_search): the files of the group that are on disk.
Glob == { f \in Files : f \notin missing }

\* agg_file up to the dispatch of the loads: glob, sort, pool.map_async.
Discover ==
    /\ pc = "start"
    /\ this_date_files' = SortedSeq(Glob)
    /\ results' = [k \in 1..Cardinality(Glob) |-> "pending"]
    /\ pc' = "load"
    /\ UNCHANGED << group, missing, unreadable, all_data, data_set, i, sl,
                    copied, writers, output, err >>

\* load_file, run by a pool worker on the k-th file of the list.
load_file(k) ==
    /\ pc = "load"
    /\ results[k] = "pending"
    /\ results' = [results EXCEPT
                     ![k] = IF this_date_files[k] \in unreadable
                            THEN "failed" ELSE "loaded"]
    /\ UNCHANGED << pc, group, missing, unreadable, this_date_files, all_data,
                    data_set, i, sl, copied, writers, output, err >>

\* Ready that returns as soon as one task has finished.
Ready_mut(res) == \E k \in DOMAIN res : res[k] # "pending"

\* results.get() returns once every task of the map has finished.
Ready(res) == \A k \in DOMAIN res : res[k] # "pending"

\* all_data = results.get(): the barrier; a failed load is re-raised.
Gather ==
    /\ pc = "load"
    /\ Ready(results)
    /\ IF \E k \in DOMAIN results : results[k] = "failed"
       THEN /\ pc' = "error"
            /\ err' = "OSError"
            /\ UNCHANGED all_data
       ELSE /\ pc' = "setup"
            /\ all_data' = [k \in DOMAIN this_date_files |->
                               group[this_date_files[k]]]
            /\ UNCHANGED err
    /\ UNCHANGED << group, missing, unreadable, this_date_files, results,
                    data_set, i, sl, copied, writers, output >>

\* data_set = set_up_dataset(all_data[0])
SetUp ==
    /\ pc = "setup"
    /\ \E r \in {set_up_dataset(all_data[1])} :
          IF r.err # ""
          THEN /\ pc' = "error"
               /\ err' = r.err
               /\ UNCHANGED << data_set, writers, i >>
          ELSE /\ pc' = "copy"
               /\ data_set' = r.data_set
               /\ writers' = [v \in DOMAIN r.data_set |->
                                [idx \in DOMAIN r.data_set[v].values |-> {}]]
               /\ i' = 1
               /\ UNCHANGED err
    /\ UNCHANGED << group, missing, unreadable, this_date_files, results,
                    all_data, sl, copied, output >>

\* One iteration of  for d in all_data.
Copy ==
    /\ pc = "copy"
    /\ i <= Len(all_data)
    /\ \E d \in {all_data[i]}, dd \in {get_dims(all_data[1], "d")} :
       \E r \in {CopyTile(data_set, d, dd)} :
          /\ sl' = TileSlices(d, dd)
          /\ data_set' = r.data_set
          /\ writers' = [v \in DOMAIN writers |->
                           [idx \in DOMAIN writers[v] |->
                              IF v \in DOMAIN r.wrote /\ idx \in r.wrote[v]
                              THEN writers[v][idx] \cup {d.file}
                              ELSE writers[v][idx]]]
          /\ IF r.err # ""
             THEN /\ pc' = "error"
                  /\ err' = r.err
                  /\ UNCHANGED << i, copied >>
             ELSE /\ i' = i + 1
                  /\ copied' = copied \cup {d.file}
                  /\ UNCHANGED << pc, err >>
    /\ UNCHANGED << group, missing, unreadable, this_date_files, results,
                    all_data, output >>

\* data_set.to_netcdf(...), after the loop.
Emit ==
    /\ pc = "copy"
    /\ i > Len(all_data)
    /\ output' = Append(output, data_set)
    /\ pc' = "done"
    /\ UNCHANGED << group, missing, unreadable, this_date_files, results,
                    all_data, data_set, i, sl, copied, writers, err >>

Next ==
    \/ Discover
    \/ \E k \in DOMAIN results : load_file(k)
    \/ Gather
    \/ SetUp
    \/ Copy
    \/ Emit

Spec == Init /\ [][Next]_vars


\* ------------------------------------------------------------ properties
Rank(v) == Len(Dims(v))
HasDim(v, name) == \E a \in 1..Len(Dims(v)) : Dims(v)[a] = name
XStag(v) == HasDim(v, "lon_u")
YStag(v) == HasDim(v, "lat_v")
Staggered(v) == XStag(v) \/ YStag(v)
HasLevel(v) == DimPos(Dims(v), "level") # 0

DomainExt == get_dims(group[1], "d")
domain_nx == DomainExt[2] - DomainExt[1] + 1
domain_ny == DomainExt[4] - DomainExt[3] + 1
domain_nz == DomainExt[6] - DomainExt[5] + 1

DomCells == (DomainExt[1]..DomainExt[2]) \X (DomainExt[3]..DomainExt[4])
                \X (DomainExt[5]..DomainExt[6])

InTileExtent(d, c) ==
    LET t == get_dims(d, "t")
    IN /\ t[1] <= c[1] /\ c[1] <= t[2]
       /\ t[3] <= c[2] /\ c[2] <= t[4]
       /\ t[5] <= c[3] /\ c[3] <= t[6]

\* The tile extents of the tiles exactly partition the domain extent.
Partitions(tiles) ==
    \A c \in DomCells :
        Cardinality({k \in DOMAIN tiles : InTileExtent(tiles[k], c)}) = 1

\* Every tile of the list has been copied and the loop has ended.
AllCopied == pc \in {"copy", "done"} /\ i > Len(all_data)

\* The tiles of all_data whose tile extent contains the global cell that
\* index idx of variable v stands for (any level, if v has no vertical axis).
Owners(v, idx) ==
    LET r == Rank(v)
        zp == DimPos(Dims(v), "level")
    IN { all_data[k].file : k \in
           { k \in DOMAIN all_data :
               \E c \in DomCells :
                  /\ InTileExtent(all_data[k], c)
                  /\ c[1] = DomainExt[1] + idx[r]
                  /\ c[2] = DomainExt[3] + idx[r - 1]
                  /\ (zp # 0 => c[3] = DomainExt[5] + idx[zp]) } }

\* C1: once every tile of a partitioning group is copied, each cell of each
\* variable's global array holds the value of the one tile owning it, and was
\* written by exactly that tile (no zero fill left, no double copy).
C1_Covering ==
    (AllCopied /\ Partitions(all_data)) =>
        \A v \in DOMAIN data_set :
            \A idx \in DOMAIN data_set[v].values :
                /\ Owners(v, idx) = {data_set[v].values[idx]}
                /\ writers[v][idx] = Owners(v, idx)


\* C2: every allocated array has trailing-x size domain_nx + 1 if its
\* dimension tuple contains 'lon_u' and domain_nx otherwise, trailing-y size
\* domain_ny + 1 if it contains 'lat_v' and domain_ny otherwise, from the
\* moment the template is built to the end of the copy phase.
C2_StaggerSize ==
    \A v \in DOMAIN data_set :
        LET sh == data_set[v].shape
            r == Len(sh)
        IN /\ r = Rank(v) /\ r \in {2, 3, 4}
           /\ sh[r] = domain_nx + (IF HasDim(v, "lon_u") THEN 1 ELSE 0)
           /\ sh[r - 1] = domain_ny + (IF HasDim(v, "lat_v") THEN 1 ELSE 0)
           /\ DOMAIN data_set[v].values = IdxSet(sh)

C2_Witness ==
    /\ pc = "done" /\ Len(all_data) >= 2
    /\ \E v \in DOMAIN data_set : HasDim(v, "lon_u") /\ HasDim(v, "lat_v")

\* Nominal (unclipped) bounds of a slice are non-negative.
NonNeg(x) == x.all \/ (x.s >= 0 /\ x.e >= 0)
\* Nominal lengths of a source and a destination slice agree.
SameLen(x, y) == (x.all /\ y.all) \/ (~x.all /\ ~y.all /\ x.e - x.s = y.e - y.s)

\* C3: for the tile just processed, on each axis the local slice and the
\* global slice have the same length and non-negative bounds, and so have
\* the slices actually used for every variable, widened by the stagger
\* offsets.
C3_SliceLengths ==
    sl # NoSlices =>
        /\ sl.xte - sl.xts = sl.xe - sl.xs
        /\ sl.yte - sl.yts = sl.ye - sl.ys
        /\ sl.zte - sl.zts = sl.ze - sl.zs
        /\ \A b \in {sl.xts, sl.xte, sl.yts, sl.yte, sl.zts, sl.zte,
                     sl.xs, sl.xe, sl.ys, sl.ye, sl.zs, sl.ze} : b >= 0
        /\ \A k \in 1..Len(group[1].variables) :
              LET dims == Dims(group[1].variables[k])
              IN Len(dims) \in {2, 3, 4} =>
                   \A a \in 1..Len(dims) :
                      /\ SameLen(LocalSlices(sl, dims)[a],
                                 GlobalSlices(sl, dims)[a])
                      /\ NonNeg(LocalSlices(sl, dims)[a])
                      /\ NonNeg(GlobalSlices(sl, dims)[a])

C3_Witness ==
    /\ pc = "copy" /\ sl.xts > 0 /\ sl.xs > 0 /\ sl.ys > 0 /\ sl.zte > sl.ze
    /\ \E k \in 1..Len(group[1].variables) :
          XStag(group[1].variables[k]) /\ Rank(group[1].variables[k]) = 4

\* C4: if a tile file of the group is missing or cannot be opened, the time
\* step ends in an error and nothing is written for it.
C4_IncompleteGroup ==
    (missing # {} \/ unreadable # {}) => (output = << >> /\ pc # "done")

\* C5: if the reference tile has a variable of rank below 2 or above 4,
\* building the template fails: agg_file ends with an error before any copy,
\* no global dataset exists (so the variable has no array in it, neither a
\* left-over one nor zeros) and nothing is written.
C5_UnsupportedRank ==
    (\E k \in 1..Len(group[1].variables) :
         Rank(group[1].variables[k]) \notin {2, 3, 4}) =>
        /\ DOMAIN data_set = {}
        /\ output = << >>
        /\ copied = {}
        /\ pc \in {"start", "load", "setup", "error"}
        /\ (pc = "error") = (err # "")

C5_Witness ==
    /\ pc = "error" /\ err = "ValueError" /\ unreadable = {}
    /\ all_data # << >>
    /\ Rank(all_data[1].variables[1]) = 3
    /\ Rank(all_data[1].variables[2]) = 1
    /\ DOMAIN data_set = {}

\* C6: within a time step every tile file has finished loading before the
\* template is built, the template exists before any tile is copied, every
\* tile is copied before the dataset is written, and it is written at most
\* once.
C6_PhaseOrder ==
    /\ (pc \in {"setup", "copy", "done"} \/ all_data # << >>
            \/ DOMAIN data_set # {}) =>
          (results # << >> /\ \A k \in DOMAIN results : results[k] = "loaded")
    /\ (copied # {} \/ sl # NoSlices
            \/ \E v \in DOMAIN writers :
                  \E idx \in DOMAIN writers[v] : writers[v][idx] # {}) =>
          (DOMAIN data_set # {} /\ all_data # << >>)
    /\ output # << >> =>
          /\ copied = {all_data[k].file : k \in DOMAIN all_data}
          /\ Len(output) <= 1
          /\ output[1] = data_set

C6_Witness ==
    pc = "done" /\ Len(all_data) = 4 /\ Len(output) = 1 /\ Cardinality(copied) = 4

FootprintsOverlap(a, b) ==
    LET s == group[a].attrs.t
        t == group[b].attrs.t
    IN /\ s.i.s <= t.i.e /\ t.i.s <= s.i.e
       /\ s.j.s <= t.j.e /\ t.j.s <= s.j.e

\* C7 as stated: with a partitioning tile set, no global cell of any
\* variable is assigned by more than one tile.
C7_Disjoint ==
    Partitions(all_data) =>
        \A v \in DOMAIN writers :
            \A idx \in DOMAIN writers[v] : Cardinality(writers[v][idx]) <= 1

\* C7 amended: with a partitioning tile set, a global cell is assigned by
\* two distinct tiles only if the variable is staggered and of rank 3 or 4
\* (the widened slices share the edge), or the variable has no vertical axis
\* and the two tiles lie over the same horizontal cells.
C7_DisjointAmended ==
    Partitions(all_data) =>
        \A v \in DOMAIN writers :
            \A idx \in DOMAIN writers[v] :
                \A a \in writers[v][idx], b \in writers[v][idx] :
                    a # b => \/ (Staggered(v) /\ Rank(v) >= 3)
                             \/ (~HasLevel(v) /\ FootprintsOverlap(a, b))

C7_Witness ==
    /\ AllCopied /\ Partitions(all_data) /\ Len(all_data) = 4
    /\ \E v \in DOMAIN writers :
          /\ Rank(v) = 2 /\ XStag(v)
          /\ \E idx \in DOMAIN writers[v] : Cardinality(writers[v][idx]) = 1
          /\ \A idx \in DOMAIN writers[v] : Cardinality(writers[v][idx]) <= 1

\* The template the copy loop starts from.
Template == set_up_dataset(all_data[1]).data_set

\* all_data in every order.
Orders ==
    { [k \in DOMAIN all_data |-> all_data[p[k]]] :
          p \in Permutations(DOMAIN all_data) }

\* C8 as stated: for a partitioning tile group, copying the tiles in any
\* order gives the final arrays the sorted order gave.
C8_OrderIndependent ==
    (pc = "done" /\ Partitions(all_data)) =>
        \A tpl \in {Template}, dd \in {DomainExt} :
            \A o \in Orders :
                CopyAll(tpl, o, dd, 1) = [err |-> "", data_set |-> data_set]

\* A variable no two tiles of all_data can both write into.
OrderSafe(v) ==
    /\ Rank(v) = 2 \/ ~Staggered(v)
    /\ HasLevel(v) \/ \A j \in DOMAIN all_data, k \in DOMAIN all_data :
                         j # k => ~FootprintsOverlap(all_data[j].file,
                                                     all_data[k].file)

\* C8 amended: for a partitioning tile group the loop completes in every
\* order of the tiles, and the final array of every variable that is of
\* rank 2 or unstaggered is the same in every order, provided the variable
\* has a vertical axis or no two tiles lie over the same horizontal cells.
C8_OrderIndependentAmended ==
    (pc = "done" /\ Partitions(all_data)) =>
        \A tpl \in {Template}, dd \in {DomainExt} :
            \A o \in Orders :
                \A r \in {CopyAll(tpl, o, dd, 1)} :
                    /\ r.err = ""
                    /\ \A v \in DOMAIN data_set :
                          OrderSafe(v) => r.data_set[v] = data_set[v]

C8_Witness ==
    /\ pc = "done" /\ Partitions(all_data) /\ Len(all_data) = 4
    /\ group[1].attrs.m.i.s < group[1].attrs.t.i.s
    /\ \E v \in DOMAIN data_set : OrderSafe(v) /\ Rank(v) = 4

\* C9: in the template the vertical axis of a rank-3 variable whose leading
\* axis is not time, and of a rank-4 variable, has the size of the domain's
\* vertical extent, and the destination slice [zs, ze) of every copied tile
\* lies inside it.
C9_VerticalSize ==
    \A v \in DOMAIN data_set :
        LET zp == IF Rank(v) = 4 THEN 2
                  ELSE IF Rank(v) = 3 /\ Dims(v)[1] # "time" THEN 1 ELSE 0
        IN /\ zp # 0 =>
                /\ data_set[v].shape[zp] = domain_nz
                /\ sl # NoSlices => sl.ze <= data_set[v].shape[zp]
           /\ (Rank(v) \in {3, 4} /\ Dims(v)[1] = "time") =>
                data_set[v].shape[1] = all_data[1].nt

\* C10: a rank-2 variable is copied with the unwidened slices, its template
\* has the +1 stagger size, and the extra last column (x-staggered) or row
\* (y-staggered) is assigned by no tile and holds the zero fill.
C10_Rank2Unwidened ==
    /\ sl # NoSlices =>
          \A k \in 1..Len(group[1].variables) :
             LET dims == Dims(group[1].variables[k])
             IN Len(dims) = 2 =>
                  /\ GlobalSlices(sl, dims)
                       = << Slice(sl.ys, sl.ye), Slice(sl.xs, sl.xe) >>
                  /\ LocalSlices(sl, dims)
                       = << Slice(sl.yts, sl.yte), Slice(sl.xts, sl.xte) >>
    /\ \A v \in DOMAIN data_set :
          Rank(v) = 2 =>
             /\ data_set[v].shape
                  = << domain_ny + (IF YStag(v) THEN 1 ELSE 0),
                       domain_nx + (IF XStag(v) THEN 1 ELSE 0) >>
             /\ \A idx \in DOMAIN data_set[v].values :
                   (\/ (XStag(v) /\ idx[2] = domain_nx)
                    \/ (YStag(v) /\ idx[1] = domain_ny)) =>
                       /\ writers[v][idx] = {}
                       /\ data_set[v].values[idx] = 0

C10_Witness ==
    /\ AllCopied /\ Partitions(all_data) /\ Len(all_data) >= 2
    /\ \E v \in DOMAIN data_set :
          /\ Rank(v) = 2 /\ XStag(v)
          /\ \A idx \in DOMAIN data_set[v].values :
                (data_set[v].values[idx] = 0) = (idx[2] = domain_nx)

====
